---- MODULE Spec2Model ----
(***************************************************************************)
(* Model of backend/main.py: the two request pipelines generate_prd and    *)
(* generate_api_docs (validation, one call to the completion endpoint,     *)
(* regex extraction of the reply's sections, assembly of the response).    *)
(*                                                                         *)
(* Text is a sequence of atoms.  An atom is a string that stands for       *)
(* itself: the structural characters "#", "-", " ", "\n", "\\" are atoms   *)
(* of one character, a word or phrase is one atom that neither starts nor  *)
(* ends with white space and contains no structural character.  The text   *)
(* an atom sequence denotes is the concatenation of its atoms, and every   *)
(* literal of the source's regular expressions is an atom sequence, so a   *)
(* literal matches the text exactly where its atoms match.  In the replies *)
(* to generate_api_docs, which are sliced by character count, every atom   *)
(* is one character.  Emoji are written by code point ("U+1F464" is the    *)
(* bust of the User Stories heading).                                      *)
(***************************************************************************)
EXTENDS Integers, Sequences, FiniteSets, TLC

VARIABLES pc, endpoint, request, calls, upstream, response_text, status, detail, response

vars == <<pc, endpoint, request, calls, upstream, response_text, status, detail, response>>

(***************************************************************************)
(* Bounds of the model.                                                    *)
(***************************************************************************)
MaxParts == 3
MaxApiParts == 3
MaxBullets == 6

(***************************************************************************)
(* Generic helpers on atom sequences.                                      *)
(***************************************************************************)
Min(S) == CHOOSE x \in S : \A y \in S : x <= y

MinOf(a, b) == IF a <= b THEN a ELSE b

Repeat(a, n) == [i \in 1..n |-> a]

RECURSIVE Flatten(_)
Flatten(ss) == IF ss = <<>> THEN <<>> ELSE Head(ss) \o Flatten(Tail(ss))

IsSpace(a) == a \in {" ", "\n", "\t", "\r"}

\* str.strip(): drop the leading and trailing white space
Strip(s) ==
  IF \A i \in 1..Len(s) : IsSpace(s[i]) THEN <<>>
  ELSE LET first == CHOOSE i \in 1..Len(s) :
                      ~IsSpace(s[i]) /\ \A j \in 1..(i - 1) : IsSpace(s[j])
           last == CHOOSE i \in 1..Len(s) :
                     ~IsSpace(s[i]) /\ \A j \in (i + 1)..Len(s) : IsSpace(s[j])
       IN SubSeq(s, first, last)

\* s[lo:hi] of Python, 0-based, hi exclusive, both clipped to the length
PySlice(s, lo, hi) == SubSeq(s, MinOf(lo, Len(s)) + 1, MinOf(hi, Len(s)))

\* the literal pat occurs in t at position i
MatchAt(t, pat, i) ==
  /\ i >= 1
  /\ i + Len(pat) - 1 <= Len(t)
  /\ \A k \in 1..Len(pat) : t[i + k - 1] = pat[k]

\* first position >= from where one of the literals occurs, 0 when none
FirstMatch(t, pats, from) ==
  LET firsts == {p[1] : p \in pats}
      S == {i \in from..Len(t) : t[i] \in firsts /\ \E p \in pats : MatchAt(t, p, i)}
  IN IF S = {} THEN 0 ELSE Min(S)

Contains(t, pat) == FirstMatch(t, {pat}, 1) # 0

NoMatch == [found |-> FALSE, group |-> <<>>]

\* re.search(head (.*?) (?=terms), t, re.DOTALL): the lazy group after the
\* first occurrence of head up to the first position where the lookahead
\* succeeds; dollar tells whether "$" is one of the lookahead's alternatives
\* ("$" without re.MULTILINE succeeds at the end of the text and just before
\* a newline that ends the text: d is the first such position from s on)
SearchFrom(t, s, terms, dollar) ==
  LET e == FirstMatch(t, terms, s)
      d == IF t # <<>> /\ t[Len(t)] = "\n" /\ s <= Len(t) THEN Len(t) ELSE Len(t) + 1
      end == IF ~dollar THEN e ELSE IF e = 0 THEN d ELSE MinOf(e, d)
  IN IF end = 0 THEN NoMatch
     ELSE [found |-> TRUE, group |-> SubSeq(t, s, end - 1)]

SearchBlock(t, head, terms, dollar) ==
  LET h == FirstMatch(t, {head}, 1)
  IN IF h = 0 THEN NoMatch ELSE SearchFrom(t, h + Len(head), terms, dollar)

\* the lines of a text, split at "\n" (the text after the last "\n" is a line)
RECURSIVE SplitLines(_)
SplitLines(t) ==
  LET n == FirstMatch(t, {<<"\n">>}, 1)
  IN IF n = 0 THEN <<t>>
     ELSE <<SubSeq(t, 1, n - 1)>> \o SplitLines(SubSeq(t, n + 1, Len(t)))

\* re.findall(lead (rest.*?)(?:\n|$), t): "." does not cross a newline, so each
\* line yields at most one match, from the first occurrence of lead in it; the
\* captured group starts after the first skip atoms of lead
RECURSIVE FindallLines(_, _, _)
FindallLines(ls, lead, skip) ==
  IF ls = <<>> THEN <<>>
  ELSE LET l == Head(ls)
           p == FirstMatch(l, {lead}, 1)
       IN (IF p = 0 THEN <<>> ELSE <<SubSeq(l, p + skip, Len(l))>>)
          \o FindallLines(Tail(ls), lead, skip)

Findall(t, lead, skip) == FindallLines(SplitLines(t), lead, skip)

\* [s.strip() for s in items if s.strip()]
RECURSIVE StripNonEmpty(_)
StripNonEmpty(items) ==
  IF items = <<>> THEN <<>>
  ELSE (IF Strip(Head(items)) = <<>> THEN <<>> ELSE <<Strip(Head(items))>>)
       \o StripNonEmpty(Tail(items))

(***************************************************************************)
(* Literals of generate_prd's patterns and prompt.                         *)
(***************************************************************************)
HeadingMarker == <<"#", "#", " ">>
UserStoriesHeading == <<"#", "#", " ", "U+1F464", " ", "User Stories">>
SuccessMetricsHeading == <<"#", "#", " ", "U+1F4CA", " ", "Success Metrics">>
TimelineHeading == <<"#", "#", " ", "U+23F1 U+FE0F", " ", "Timeline">>
RisksHeading == <<"#", "#", " ", "U+26A0 U+FE0F", " ", "Risks">>

\* the alternatives of the lookahead (?=## |---|\\Z): in the raw string "\\Z"
\* is an escaped backslash followed by the letter Z
TermsSpaced == {<<"#", "#", " ">>, <<"-", "-", "-">>, <<"\\", "Z">>}
\* the alternatives of the lookahead (?=##|---|\\Z)
TermsBare == {<<"#", "#">>, <<"-", "-", "-">>, <<"\\", "Z">>}

DefaultStories == << <<"As a user, I want this feature so I can achieve my goals">> >>
DefaultMetrics == << <<"Adoption rate">>, <<"User engagement">>, <<"Time saved">> >>
DefaultTimeline == <<"2", "-", "4 weeks">>
DefaultRisks == << <<"Technical complexity">>, <<"User adoption">>, <<"Timeline risk">> >>

MaxItems == 5

(***************************************************************************)
(* The section extraction of generate_prd.                                 *)
(***************************************************************************)
stories_match_any_decoration(text) ==
  IF Contains(text, UserStoriesHeading)
  THEN SearchBlock(text, UserStoriesHeading, TermsSpaced, FALSE)
  ELSE SearchBlock(text, <<"#", "#", " ", "User Stories">>, TermsSpaced, FALSE)
stories_match(text) == SearchBlock(text, UserStoriesHeading, TermsSpaced, FALSE)

metrics_match(text) == SearchBlock(text, SuccessMetricsHeading, TermsSpaced, FALSE)

timeline_match(text) == SearchBlock(text, TimelineHeading \o <<"\n">>, TermsBare, FALSE)

risks_match(text) == SearchBlock(text, RisksHeading, TermsBare, FALSE)

\* re.findall(r'- (As a.*?)(?:\n|$)', stories_text)
FindStories(block) == Findall(block, <<"-", " ", "As a">>, 2)

\* re.findall(r'- (.*?)(?:\n|$)', block)
FindBullets(block) == Findall(block, <<"-", " ">>, 2)

user_stories(text) ==
  LET m == stories_match(text)
  IN IF m.found THEN StripNonEmpty(FindStories(m.group)) ELSE <<>>

success_metrics(text) ==
  LET m == metrics_match(text)
  IN IF m.found THEN StripNonEmpty(FindBullets(m.group)) ELSE <<>>

timeline(text) ==
  LET m == timeline_match(text)
  IN IF m.found THEN Strip(m.group) ELSE DefaultTimeline

risks(text) ==
  LET m == risks_match(text)
  IN IF m.found THEN StripNonEmpty(FindBullets(m.group)) ELSE <<>>

\* items[:5] if items else default
KeepAll(items, default) == IF items # <<>> THEN items ELSE default
FirstItemsOr(items, default) ==
  IF items # <<>> THEN PySlice(items, 0, MaxItems) ELSE default

PRDResponse(text) ==
  LET stories == user_stories(text)
      metrics == success_metrics(text)
      risk_items == risks(text)
  IN [prd_document |-> text,
      user_stories |-> FirstItemsOr(stories, DefaultStories),
      success_metrics |-> FirstItemsOr(metrics, DefaultMetrics),
      timeline |-> timeline(text),
      risks |-> FirstItemsOr(risk_items, DefaultRisks)]

(***************************************************************************)
(* Literals of generate_api_docs's patterns.                               *)
(***************************************************************************)
\* generate_api_docs slices the reply by character count, so on this side
\* every atom is one character
DocsHeading ==
  <<"#", "#", " ", "U+1F4DA", " ", "A", "P", "I", " ", "D", "o", "c", "u",
    "m", "e", "n", "t", "a", "t", "i", "o", "n">>
OpenApiMarker == <<"#", "#", " ", "U+1F517">>
OpenApiHeading ==
  OpenApiMarker \o
    <<" ", "O", "p", "e", "n", "A", "P", "I", " ", "S", "p", "e", "c", "\n">>
ExamplesMarker == <<"#", "#", " ", "U+1F4BB">>
ExamplesHeading ==
  ExamplesMarker \o
    <<" ", "C", "o", "d", "e", " ", "E", "x", "a", "m", "p", "l", "e", "s",
      "\n">>
Separator ==
  <<"-", "-", "-", "S", "E", "P", "A", "R", "A", "T", "O", "R", "-", "-",
    "-">>

DefaultOpenApi ==
  <<"{", "\"", "o", "p", "e", "n", "a", "p", "i", "\"", ":", " ", "\"", "3",
    ".", "0", ".", "0", "\"", ",", " ", "\"", "i", "n", "f", "o", "\"", ":",
    " ", "{", "\"", "t", "i", "t", "l", "e", "\"", ":", " ", "\"", "A", "P",
    "I", "\"", "}", "}">>
DefaultMarkdown ==
  <<"#", " ", "A", "P", "I", " ", "D", "o", "c", "u", "m", "e", "n", "t",
    "a", "t", "i", "o", "n", "\n", "\n", "A", "P", "I", " ", "e", "n", "d",
    "p", "o", "i", "n", "t", "s", " ", "a", "n", "d", " ", "u", "s", "a",
    "g", "e", " ", "i", "n", "f", "o", "r", "m", "a", "t", "i", "o", "n",
    ".">>
DefaultExampleCode ==
  <<"#", " ", "E", "x", "a", "m", "p", "l", "e", " ", "u", "s", "a", "g",
    "e">>

SliceLen == 500
SliceEnd == 1000

(***************************************************************************)
(* The section extraction of generate_api_docs.                            *)
(***************************************************************************)
\* r'## <books> API Documentation.*?\n(.*?)(?=## <link>|---SEPARATOR---|$)'
markdown_match(text) ==
  LET h == FirstMatch(text, {DocsHeading}, 1)
      n == IF h = 0 THEN 0 ELSE FirstMatch(text, {<<"\n">>}, h + Len(DocsHeading))
  IN IF n = 0 THEN NoMatch
     ELSE SearchFrom(text, n + 1, {OpenApiMarker, Separator}, TRUE)

\* r'## <link> OpenAPI Spec\n(.*?)(?=## <laptop>|---SEPARATOR---|$)'
openapi_match(text) == SearchBlock(text, OpenApiHeading, {ExamplesMarker, Separator}, TRUE)

\* r'## <laptop> Code Examples\n(.*?)$'
examples_match_bounded(text) ==
  SearchBlock(text, ExamplesHeading, {HeadingMarker, Separator}, TRUE)
examples_match(text) == SearchBlock(text, ExamplesHeading, {}, TRUE)

markdown_docs(text) ==
  LET m == markdown_match(text) IN IF m.found THEN Strip(m.group) ELSE <<>>

openapi_spec(text) ==
  LET m == openapi_match(text) IN IF m.found THEN Strip(m.group) ELSE <<>>

FirstExample(examples_text, language) ==
  [language |-> language, code |-> PySlice(examples_text, 0, SliceLen)]

SecondExampleNoGuard(examples_text) ==
  [language |-> "JavaScript", code |-> PySlice(examples_text, SliceLen, SliceEnd)]
SecondExample(examples_text) ==
  [language |-> "JavaScript",
   code |-> IF Len(examples_text) > SliceLen
            THEN PySlice(examples_text, SliceLen, SliceEnd) ELSE examples_text]

code_examples(text, language) ==
  LET m == examples_match(text)
  IN IF m.found
     THEN <<FirstExample(m.group, language), SecondExample(m.group)>>
     ELSE <<>>

APIDocResponse(text, language) ==
  LET spec == openapi_spec(text)
      docs == markdown_docs(text)
      examples == code_examples(text, language)
  IN [openapi_spec |-> IF spec # <<>> THEN spec ELSE DefaultOpenApi,
      markdown_docs |-> IF docs # <<>> THEN docs ELSE DefaultMarkdown,
      code_examples |-> IF examples # <<>> THEN examples
                        ELSE << [language |-> language, code |-> DefaultExampleCode] >>]

(***************************************************************************)
(* Replies of the completion endpoint.  A reply is a short sequence of     *)
(* parts (heading lines, bullet lines, separators, plain text); the text   *)
(* the handler receives is the concatenation of the parts.                 *)
(***************************************************************************)
BulletNames == <<"admin", "buyer", "coach", "driver", "editor", "farmer", "guest", "host">>

BulletLine(i) == <<"-", " ", "As a", " ", BulletNames[i], "\n">>

Story1 == <<"As a", " ", "tester, I want coverage so that bugs are caught">>
Story2 == <<"As a", " ", "user, I want speed so that I save time">>

PrdParts ==
  {"H_US", "H_SM", "H_TL", "H_RK", "H_US_PLAIN", "SEP", "STORIES2",
   "BULLETS", "METRIC", "MID", "TEXT", "BSZ"}

PrdPartText(p) ==
  CASE p = "H_US" -> UserStoriesHeading \o <<"\n">>
    [] p = "H_SM" -> SuccessMetricsHeading \o <<"\n">>
    [] p = "H_TL" -> TimelineHeading \o <<"\n">>
    [] p = "H_RK" -> RisksHeading \o <<"\n">>
    [] p = "H_US_PLAIN" -> <<"#", "#", " ", "User Stories", "\n">>
    [] p = "SEP" -> <<"-", "-", "-", "\n">>
    [] p = "STORIES2" -> <<"-", " ">> \o Story1 \o <<"\n", "-", " ">> \o Story2 \o <<"\n">>
    [] p = "BULLETS" -> Flatten([i \in 1..MaxBullets |-> BulletLine(i)])
    [] p = "METRIC" -> <<"-", " ", " ", "DAU up 10%", " ", "\n">>
    [] p = "MID" -> <<"Note", " ", "-", " ", "As a", "n", " ", "owner", " ", "\n">>
    [] p = "TEXT" -> <<"4 weeks", "\n">>
    [] p = "BSZ" -> <<"\\", "Z", "\n">>

ApiParts ==
  {"H_DOC", "H_OAS", "H_EX", "SEPARATOR", "SUBHEAD", "TEXT", "FILL100", "FILL400", "FILL600"}

ApiPartText(p) ==
  CASE p = "H_DOC" -> DocsHeading \o
                      <<" ", "(", "M", "a", "r", "k", "d", "o", "w", "n", ")", "\n">>
    [] p = "H_OAS" -> OpenApiHeading
    [] p = "H_EX" -> ExamplesHeading
    [] p = "SEPARATOR" -> Separator \o <<"\n">>
    [] p = "SUBHEAD" ->
        <<"#", "#", " ", "E", "n", "d", "p", "o", "i", "n", "t", "s", "\n">>
    [] p = "TEXT" ->
        <<"G", "E", "T", " ", "/", "i", "t", "e", "m", "s", "\n">>
    [] p = "FILL100" -> Repeat("a", 100)
    [] p = "FILL400" -> Repeat("b", 400)
    [] p = "FILL600" -> Repeat("c", 600)

\* the replies of at most n parts (a reply has at least one part)
Docs(parts, n) == UNION {[1..k -> parts] : k \in 1..n}

RenderPrd(doc) == Flatten([i \in 1..Len(doc) |-> PrdPartText(doc[i])])

RenderApi(doc) == Flatten([i \in 1..Len(doc) |-> ApiPartText(doc[i])])

(***************************************************************************)
(* Requests and upstream failures.                                         *)
(***************************************************************************)
PrdRequests ==
  {[feature_idea |-> f] : f \in {<<>>, <<" ", "\n">>, <<"Dark mode">>}}

ApiRequests ==
  {[code |-> c, language |-> l] :
     c \in {<<>>, <<" ", "\t">>, <<"def f(): pass">>}, l \in {"Python", "Go"}}

UpstreamErrors == {"Connection error.", "Invalid API Key", "Rate limit reached"}

NoResponse == [none |-> TRUE]

\* not s.strip()
IsEmptyOnly(s) == s = <<>>
IsBlank(s) == Strip(s) = <<>>

\* raise HTTPException(status_code=500, detail=f"Error generating ...: {str(e)}")
ErrorDetailGeneric(prefix, err) == <<prefix>>
ErrorDetail(prefix, err) == <<prefix, err>>

(***************************************************************************)
(* The state machine: one request at a time goes from "idle" through       *)
(* validation ("calling" while the call to the completion endpoint is      *)
(* outstanding) to "done".                                                 *)
(***************************************************************************)
Init ==
  /\ pc = "idle"
  /\ endpoint = "none"
  /\ request = NoResponse
  /\ calls = 0
  /\ upstream = [kind |-> "none"]
  /\ response_text = <<>>
  /\ status = 0
  /\ detail = <<>>
  /\ response = NoResponse

\* generate_prd up to client.chat.completions.create
GeneratePrdBegin(req) ==
  /\ pc = "idle"
  /\ endpoint' = "prd"
  /\ request' = req
  /\ IF IsBlank(req.feature_idea)
     THEN /\ pc' = "done"
          /\ status' = 400
          /\ detail' = <<"Feature idea cannot be empty">>
          /\ calls' = calls
     ELSE /\ pc' = "calling"
          /\ calls' = calls + 1
          /\ UNCHANGED <<status, detail>>
  /\ UNCHANGED <<upstream, response_text, response>>

\* the completion endpoint answers with text: parse the sections and return
GeneratePrdReturn(doc) ==
  /\ pc = "calling"
  /\ endpoint = "prd"
  /\ upstream' = [kind |-> "text", parts |-> doc]
  /\ response_text' = RenderPrd(doc)
  /\ response' = PRDResponse(response_text')
  /\ status' = 200
  /\ pc' = "done"
  /\ UNCHANGED <<endpoint, request, calls, detail>>

\* the call raises: except Exception -> HTTP 500
GeneratePrdFail(err) ==
  /\ pc = "calling"
  /\ endpoint = "prd"
  /\ upstream' = [kind |-> "error", message |-> err]
  /\ status' = 500
  /\ detail' = ErrorDetail("Error generating PRD: ", err)
  /\ pc' = "done"
  /\ UNCHANGED <<endpoint, request, calls, response_text, response>>

\* generate_api_docs up to client.chat.completions.create
GenerateApiDocsBegin(req) ==
  /\ pc = "idle"
  /\ endpoint' = "api_docs"
  /\ request' = req
  /\ IF IsBlank(req.code)
     THEN /\ pc' = "done"
          /\ status' = 400
          /\ detail' = <<"Code cannot be empty">>
          /\ calls' = calls
     ELSE /\ pc' = "calling"
          /\ calls' = calls + 1
          /\ UNCHANGED <<status, detail>>
  /\ UNCHANGED <<upstream, response_text, response>>

GenerateApiDocsReturn(doc) ==
  /\ pc = "calling"
  /\ endpoint = "api_docs"
  /\ upstream' = [kind |-> "text", parts |-> doc]
  /\ response_text' = RenderApi(doc)
  /\ response' = APIDocResponse(response_text', request.language)
  /\ status' = 200
  /\ pc' = "done"
  /\ UNCHANGED <<endpoint, request, calls, detail>>

GenerateApiDocsFail(err) ==
  /\ pc = "calling"
  /\ endpoint = "api_docs"
  /\ upstream' = [kind |-> "error", message |-> err]
  /\ status' = 500
  /\ detail' = ErrorDetail("Error generating API docs: ", err)
  /\ pc' = "done"
  /\ UNCHANGED <<endpoint, request, calls, response_text, response>>

Next ==
  \/ \E req \in PrdRequests : GeneratePrdBegin(req)
  \/ \E doc \in Docs(PrdParts, MaxParts) : GeneratePrdReturn(doc)
  \/ \E err \in UpstreamErrors : GeneratePrdFail(err)
  \/ \E req \in ApiRequests : GenerateApiDocsBegin(req)
  \/ \E doc \in Docs(ApiParts, MaxApiParts) : GenerateApiDocsReturn(doc)
  \/ \E err \in UpstreamErrors : GenerateApiDocsFail(err)

Spec == Init /\ [][Next]_vars

PrdDone == pc = "done" /\ endpoint = "prd" /\ status = 200
ApiDone == pc = "done" /\ endpoint = "api_docs" /\ status = 200

(***************************************************************************)
(* Properties.                                                             *)
(***************************************************************************)
AllWhite(s) == \A i \in 1..Len(s) : s[i] \in {" ", "\n", "\t", "\r"}

RequiredField == IF endpoint = "prd" THEN request.feature_idea ELSE request.code

\* C6: a request whose required text field is empty or white space only ends
\* with HTTP 400, and the completion endpoint is never called for it
C6_BlankRejectedBeforeCall ==
  (pc # "idle" /\ AllWhite(RequiredField)) =>
     (pc = "done" /\ status = 400 /\ calls = 0 /\ upstream.kind = "none")

C6_Witness ==
  /\ pc = "done"
  /\ endpoint = "prd"
  /\ request.feature_idea = <<" ", "\n">>
  /\ status = 400

FirstFiveOf(returned, extracted) ==
  /\ Len(returned) <= 5
  /\ Len(extracted) > 5 =>
       (Len(returned) = 5 /\ \A i \in 1..5 : returned[i] = extracted[i])

C5_AtMostFiveInOrder ==
  PrdDone =>
    /\ FirstFiveOf(response.user_stories, user_stories(response_text))
    /\ FirstFiveOf(response.success_metrics, success_metrics(response_text))
    /\ FirstFiveOf(response.risks, risks(response_text))

C5_Witness ==
  /\ PrdDone
  /\ Len(risks(response_text)) > 5
  /\ Len(response.risks) = 5
  /\ response.risks[5] = <<"As a", " ", "editor">>

\* C8: when the Code Examples block is found, code_examples has exactly two
\* entries: the requested language with the first 500 characters of the
\* block, and JavaScript with characters 500 to 999 of the block when the block
\* is longer than 500 characters and with the whole block otherwise
C8_TwoSlicedExamples ==
  (ApiDone /\ examples_match(response_text).found) =>
    LET b == examples_match(response_text).group
        ex == response.code_examples
    IN /\ Len(ex) = 2
       /\ ex[1].language = request.language
       /\ Len(ex[1].code) = MinOf(500, Len(b))
       /\ \A i \in 1..Len(ex[1].code) : ex[1].code[i] = b[i]
       /\ ex[2].language = "JavaScript"
       /\ IF Len(b) > 500
          THEN /\ Len(ex[2].code) = MinOf(1000, Len(b)) - 500
               /\ \A i \in 1..Len(ex[2].code) : ex[2].code[i] = b[500 + i]
          ELSE ex[2].code = b

C8_Witness ==
  /\ ApiDone
  /\ examples_match(response_text).found
  /\ Len(examples_match(response_text).group) = 400
  /\ Len(response.code_examples) = 2
  /\ response.code_examples[2].code = examples_match(response_text).group

\* a block longer than 1000 characters: the second entry stops at character 999
C8_LongBlockReached ==
  /\ ApiDone
  /\ examples_match(response_text).found
  /\ Len(examples_match(response_text).group) > 1000
  /\ Len(response.code_examples[2].code) = 500

\* C1: every field of a 200 response is present and non-empty
C1_EveryFieldNonEmpty ==
  /\ PrdDone =>
       /\ response.prd_document # <<>>
       /\ response.user_stories # <<>>
       /\ response.success_metrics # <<>>
       /\ response.timeline # <<>>
       /\ response.risks # <<>>
  /\ ApiDone =>
       /\ response.openapi_spec # <<>>
       /\ response.markdown_docs # <<>>
       /\ response.code_examples # <<>>

\* the block of a heading by the stated boundary rule: from the end of the
\* heading line to the earliest of the next line starting with a heading
\* marker, a "---" separator and the end of the text
RuleBlock(t, head, sep) ==
  LET h == FirstMatch(t, {head}, 1)
      n == IF h = 0 THEN 0 ELSE FirstMatch(t, {<<"\n">>}, h + Len(head))
      s == IF n = 0 THEN Len(t) + 1 ELSE n + 1
      stops == {j \in s..Len(t) :
                  \/ t[j] = "-" /\ MatchAt(t, sep, j)
                  \/ /\ t[j] = "#"
                     /\ MatchAt(t, HeadingMarker, j)
                     /\ t[j - 1] = "\n"}
      e == IF stops = {} THEN Len(t) + 1 ELSE Min(stops)
  IN [found |-> h # 0, group |-> IF h = 0 THEN <<>> ELSE SubSeq(t, s, e - 1)]

FirstFive(items) == SubSeq(items, 1, MinOf(5, Len(items)))

ItemsOr(items, default) == IF items = <<>> THEN default ELSE FirstFive(items)

\* C2: each PRD block starts after its heading line and ends at the earliest
\* of the next heading line, a "---" separator and the end of the text, so a
\* section that ends the reply yields its content and not the fallback: the
\* content that the block so delimited holds for a field is the field's value
C2_BlockEndsAtEndOfText ==
  PrdDone =>
    LET t == response_text
        dash == <<"-", "-", "-">>
        us == StripNonEmpty(FindStories(RuleBlock(t, UserStoriesHeading, dash).group))
        sm == StripNonEmpty(FindBullets(RuleBlock(t, SuccessMetricsHeading, dash).group))
        tl == Strip(RuleBlock(t, TimelineHeading, dash).group)
        rk == StripNonEmpty(FindBullets(RuleBlock(t, RisksHeading, dash).group))
    IN /\ us # <<>> => response.user_stories = FirstFive(us)
       /\ sm # <<>> => response.success_metrics = FirstFive(sm)
       /\ tl # <<>> => response.timeline = tl
       /\ rk # <<>> => response.risks = FirstFive(rk)

\* parts that open a section, and the field whose section they open
HeadingParts == {"H_US", "H_SM", "H_TL", "H_RK", "H_US_PLAIN"}

FieldOfPart(p) ==
  CASE p \in {"H_US", "H_US_PLAIN"} -> "user_stories"
    [] p = "H_SM" -> "success_metrics"
    [] p = "H_TL" -> "timeline"
    [] p = "H_RK" -> "risks"

\* the reply without the section that part i opens (the heading and the parts
\* after it up to the next heading or separator part)
WithoutSection(doc, i) ==
  LET later == {j \in (i + 1)..Len(doc) : doc[j] \in HeadingParts \cup {"SEP"}}
      next == IF later = {} THEN Len(doc) + 1 ELSE Min(later)
  IN SubSeq(doc, 1, i - 1) \o SubSeq(doc, next, Len(doc))

ExactHeadingPart(f) ==
  CASE f = "user_stories" -> "H_US"
    [] f = "success_metrics" -> "H_SM"
    [] f = "timeline" -> "H_TL"
    [] f = "risks" -> "H_RK"

BodyParts(f) ==
  CASE f = "user_stories" -> {"STORIES2", "BULLETS"}
    [] f = "success_metrics" -> {"STORIES2", "BULLETS", "METRIC"}
    [] f = "timeline" -> {"TEXT"}
    [] f = "risks" -> {"STORIES2", "BULLETS", "METRIC"}

\* the reply holds a well-formed section of field f: the heading of the prompt
\* template followed by a body that has content for the field
WellFormedSection(doc, f) ==
  \E k \in 1..(Len(doc) - 1) :
     doc[k] = ExactHeadingPart(f) /\ doc[k + 1] \in BodyParts(f)

\* C3: extraction is independent per field: removing the section of another
\* field from the reply leaves unchanged the value returned for a field whose
\* section is well-formed
C3_FieldsIndependent ==
  PrdDone =>
    \A i \in 1..Len(upstream.parts) :
      upstream.parts[i] \in HeadingParts =>
        LET other == PRDResponse(RenderPrd(WithoutSection(upstream.parts, i)))
        IN \A f \in {"user_stories", "success_metrics", "timeline", "risks"} :
             (f # FieldOfPart(upstream.parts[i]) /\ WellFormedSection(upstream.parts, f))
             => response[f] = other[f]

\* the lines of the block that begin with the bullet marker and "As a",
\* without the marker
RECURSIVE StoryLines(_)
StoryLines(ls) ==
  IF ls = <<>> THEN <<>>
  ELSE (IF MatchAt(Head(ls), <<"-", " ", "As a">>, 1)
        THEN <<SubSeq(Head(ls), 3, Len(Head(ls)))>> ELSE <<>>)
       \o StoryLines(Tail(ls))

\* C4: user_stories is, in source order, the trimmed non-empty texts of exactly
\* the lines of the User Stories block that begin with a bullet marker and
\* "As a", cut to the first 5, and the canned story when there is none
C4_StoriesAreBulletLines ==
  PrdDone =>
    response.user_stories =
      ItemsOr(StripNonEmpty(StoryLines(SplitLines(stories_match(response_text).group))),
              DefaultStories)

\* C4, the example of the specification: two stories before the Success
\* Metrics heading are returned as they are, in order
C4_ExampleHolds ==
  (PrdDone /\ upstream.parts = <<"H_US", "STORIES2", "H_SM">>) =>
     response.user_stories = <<Story1, Story2>>

\* the reply with every heading decorated as in the prompt template
Redecorated(doc) ==
  [i \in 1..Len(doc) |-> IF doc[i] = "H_US_PLAIN" THEN "H_US" ELSE doc[i]]

\* C9 as stated: a heading with another decoration, or none, before its
\* significant words yields the same field values as the template's heading
C9_DecorationTolerated ==
  PrdDone =>
    LET same == PRDResponse(RenderPrd(Redecorated(upstream.parts)))
    IN /\ response.user_stories = same.user_stories
       /\ response.success_metrics = same.success_metrics
       /\ response.timeline = same.timeline
       /\ response.risks = same.risks

\* C9 amended: heading matching is exact; a reply that nowhere contains a
\* field's heading exactly as the prompt template writes it yields the
\* field's fallback value, whatever other decoration the heading words carry
C9_ExactHeadingOnly ==
  PrdDone =>
    /\ ~Contains(response_text, UserStoriesHeading) =>
         response.user_stories = DefaultStories
    /\ ~Contains(response_text, SuccessMetricsHeading) =>
         response.success_metrics = DefaultMetrics
    /\ ~Contains(response_text, TimelineHeading) =>
         response.timeline = DefaultTimeline
    /\ ~Contains(response_text, RisksHeading) =>
         response.risks = DefaultRisks

C9_Witness ==
  /\ PrdDone
  /\ upstream.parts = <<"H_US_PLAIN", "STORIES2", "SEP">>
  /\ ~Contains(response_text, UserStoriesHeading)
  /\ response.user_stories = DefaultStories

ApiItemsFrom(block, language) ==
  << [language |-> language, code |-> SubSeq(block, 1, MinOf(500, Len(block)))],
     [language |-> "JavaScript",
      code |-> IF Len(block) > 500
               THEN SubSeq(block, 501, MinOf(1000, Len(block))) ELSE block] >>

\* a boundary of the stated rule lies in the text: the separator token, or a
\* line that starts with a heading marker
HoldsBoundary(b) ==
  \/ Contains(b, Separator)
  \/ MatchAt(b, HeadingMarker, 1)
  \/ Contains(b, <<"\n">> \o HeadingMarker)

\* C10 as stated: the three blocks of generate_api_docs obey the boundary rule
\* of the PRD blocks (next heading line, separator token, end of text), so no
\* block holds a boundary or the text after it
C10_SameBoundaryRule ==
  ApiDone =>
    /\ ~HoldsBoundary(response.markdown_docs)
    /\ ~HoldsBoundary(response.openapi_spec)
    /\ \A i \in 1..Len(response.code_examples) :
         ~HoldsBoundary(response.code_examples[i].code)

\* the end of a block of generate_api_docs that starts at position s: the
\* first position from s on where one of the stop literals begins, or else
\* the end of the text (before the newline that ends the text, if any)
ApiBlockEnd(t, s, stops) ==
  LET at == {j \in s..Len(t) : t[j] \in {"#", "-"} /\ \E p \in stops : MatchAt(t, p, j)}
      last == IF s <= Len(t) /\ t[Len(t)] = "\n" THEN Len(t) ELSE Len(t) + 1
  IN Min(at \cup {last})

\* C10 amended: the API Documentation block starts after the first newline
\* that follows its heading and ends at the earliest of the OpenAPI heading
\* marker, the separator token and the end of the text; the OpenAPI Spec block
\* starts after its heading line and ends at the earliest of the Code Examples
\* heading marker, the separator token and the end of the text; the Code
\* Examples block starts after its heading line and runs to the end of the
\* text, separators and headings included
C10_ActualBoundaries ==
  ApiDone =>
    LET t == response_text
        dh == FirstMatch(t, {DocsHeading}, 1)
        dn == IF dh = 0 THEN 0 ELSE FirstMatch(t, {<<"\n">>}, dh + Len(DocsHeading))
        md == IF dn = 0 THEN <<>>
              ELSE Strip(SubSeq(t, dn + 1,
                                ApiBlockEnd(t, dn + 1, {OpenApiMarker, Separator}) - 1))
        oh == FirstMatch(t, {OpenApiHeading}, 1)
        os == oh + Len(OpenApiHeading)
        oa == IF oh = 0 THEN <<>>
              ELSE Strip(SubSeq(t, os, ApiBlockEnd(t, os, {ExamplesMarker, Separator}) - 1))
        eh == FirstMatch(t, {ExamplesHeading}, 1)
        es == eh + Len(ExamplesHeading)
    IN /\ response.markdown_docs = IF md = <<>> THEN DefaultMarkdown ELSE md
       /\ response.openapi_spec = IF oa = <<>> THEN DefaultOpenApi ELSE oa
       /\ response.code_examples =
            IF eh = 0
            THEN << [language |-> request.language, code |-> DefaultExampleCode] >>
            ELSE ApiItemsFrom(SubSeq(t, es, ApiBlockEnd(t, es, {}) - 1), request.language)

C10_Witness ==
  /\ ApiDone
  /\ upstream.parts = <<"H_EX", "TEXT", "SEPARATOR">>
  /\ Contains(response.code_examples[1].code, Separator)

\* a documentation block that runs over a heading line up to the OpenAPI heading
C10_DocsOverSubheading ==
  /\ ApiDone
  /\ upstream.parts = <<"H_DOC", "SUBHEAD", "H_OAS">>
  /\ Contains(response.markdown_docs, HeadingMarker)

====
